---------------------------- MODULE Spec2Model ----------------------------
(***************************************************************************)
(* Model of app.py: the Flask handler search_trials and the pipeline       *)
(* fetch_trials_from_clinicaltrials_gov (paginate, filter by last-update   *)
(* date, sort by last-update date descending).                             *)
(*                                                                         *)
(* Python strings are sequences of one-character strings, so that strip()  *)
(* and strptime() are computed character by character.  JSON values are    *)
(* tagged records: [t |-> "str", s |-> chars], [t |-> "num", n |-> int],   *)
(* [t |-> "list", items |-> seq], [t |-> "absent"] for a missing key.      *)
(***************************************************************************)
EXTENDS Integers, Sequences, FiniteSets, TLC

(***************************************************************************)
(* Bounds of the model.                                                    *)
(***************************************************************************)
\* the upstream serves at most this many numbered studies during one inbound
\* request; after them its pages hold one study without identifier and date
MaxStudies == 3
\* most study records in one upstream page
MaxPerPage == 2
\* most elements of the query_terms list of a request
MaxTerms == 2

(***************************************************************************)
(* Program constants.                                                      *)
(***************************************************************************)
max_pages == 5
DaysPerMonth == 30
DefaultMonthsBack == 3

(***************************************************************************)
(* Characters and strings.                                                 *)
(***************************************************************************)
DigitChars == <<"0", "1", "2", "3", "4", "5", "6", "7", "8", "9">>

IsDigit(c) == \E i \in 1..10 : DigitChars[i] = c

DigitVal(c) == (CHOOSE i \in 1..10 : DigitChars[i] = c) - 1

\* str.isspace() on one character
IsSpace(c) == c \in {" ", "\t", "\n"}

RECURSIVE LStrip(_)
LStrip(s) ==
    IF s # <<>> /\ IsSpace(Head(s)) THEN LStrip(Tail(s)) ELSE s

RECURSIVE RStrip(_)
RStrip(s) ==
    IF s # <<>> /\ IsSpace(s[Len(s)]) THEN RStrip(SubSeq(s, 1, Len(s) - 1)) ELSE s

\* str.strip()
Strip(s) == RStrip(LStrip(s))

(***************************************************************************)
(* datetime: [ord |-> proleptic Gregorian ordinal, tod |-> time of day].   *)
(* A parsed date is at midnight (tod = 0).                                 *)
(***************************************************************************)
IsLeap(y) == (y % 4 = 0) /\ ((y % 100 # 0) \/ (y % 400 = 0))

DaysInMonth(y, m) ==
    IF m = 2 THEN (IF IsLeap(y) THEN 29 ELSE 28)
    ELSE IF m \in {4, 6, 9, 11} THEN 30 ELSE 31

RECURSIVE DaysBeforeMonth(_, _)
DaysBeforeMonth(y, m) ==
    IF m = 1 THEN 0 ELSE DaysBeforeMonth(y, m - 1) + DaysInMonth(y, m - 1)

\* datetime(y, m, d).toordinal()
Ordinal(y, m, d) ==
    LET p == y - 1
    IN  p * 365 + (p \div 4) - (p \div 100) + (p \div 400) + DaysBeforeMonth(y, m) + d

\* datetime.min, 0001-01-01 00:00
DatetimeMin == [ord |-> 1, tod |-> 0]

\* a < b on datetimes
DtLess(a, b) == a.ord < b.ord \/ (a.ord = b.ord /\ a.tod < b.tod)

\* a - timedelta(days = n)
MinusDays(a, n) == [ord |-> a.ord - n, tod |-> a.tod]

(***************************************************************************)
(* datetime.strptime(v, "%Y-%m-%d").  The format compiles to the regular   *)
(* expression (\d\d\d\d)-(1[0-2]|0[1-9]|[1-9])-(3[01]|[12]\d|0[1-9]|[1-9]| *)
(* [1-9]) which must match the whole string; the fields must then form a   *)
(* date of the calendar.  A non-string argument raises TypeError.          *)
(***************************************************************************)
RECURSIVE SplitDash(_, _, _)
\* the fields of s between "-" characters
SplitDash(s, cur, acc) ==
    IF s = <<>> THEN Append(acc, cur)
    ELSE IF Head(s) = "-" THEN SplitDash(Tail(s), <<>>, Append(acc, cur))
    ELSE SplitDash(Tail(s), Append(cur, Head(s)), acc)

RECURSIVE NumVal(_)
NumVal(ds) ==
    IF ds = <<>> THEN 0 ELSE NumVal(SubSeq(ds, 1, Len(ds) - 1)) * 10 + DigitVal(ds[Len(ds)])

AllDigits(ds) == \A i \in 1..Len(ds) : IsDigit(ds[i])

\* (\d\d\d\d)
MatchYear(f) == Len(f) = 4 /\ AllDigits(f)

\* (1[0-2]|0[1-9]|[1-9])
MatchMonth(f) ==
    /\ Len(f) \in {1, 2}
    /\ AllDigits(f)
    /\ NumVal(f) \in 1..12

\* (3[01]|[12]\d|0[1-9]|[1-9]| [1-9])
MatchDay(f) ==
    \/ Len(f) \in {1, 2} /\ AllDigits(f) /\ NumVal(f) \in 1..31
    \/ Len(f) = 2 /\ f[1] = " " /\ IsDigit(f[2]) /\ DigitVal(f[2]) >= 1

DayVal(f) == IF f[1] = " " THEN DigitVal(f[2]) ELSE NumVal(f)

ValueError == [ok |-> FALSE, exc |-> "ValueError", dt |-> DatetimeMin]
TypeError == [ok |-> FALSE, exc |-> "TypeError", dt |-> DatetimeMin]

strptime(v) ==
    IF v.t # "str" THEN TypeError
    ELSE LET f == SplitDash(v.s, <<>>, <<>>)
         IN  IF Len(f) # 3 THEN ValueError
             ELSE IF ~(MatchYear(f[1]) /\ MatchMonth(f[2]) /\ MatchDay(f[3])) THEN ValueError
             ELSE LET y == NumVal(f[1])
                      m == NumVal(f[2])
                      d == DayVal(f[3])
                  IN  IF y < 1 \/ d > DaysInMonth(y, m) THEN ValueError
                      ELSE [ok |-> TRUE, exc |-> "", dt |-> [ord |-> Ordinal(y, m, d), tod |-> 0]]


(***************************************************************************)
(* JSON values and Python truthiness.                                      *)
(***************************************************************************)
Absent == [t |-> "absent"]
Null == [t |-> "null"]
Str(chars) == [t |-> "str", s |-> chars]
Num(k) == [t |-> "num", n |-> k]

\* "not v"
Falsy(v) ==
    \/ v.t \in {"absent", "null"}
    \/ v.t = "str" /\ v.s = <<>>
    \/ v.t = "num" /\ v.n = 0
    \/ v.t = "list" /\ v.items = <<>>

(***************************************************************************)
(* The dates the upstream's studies carry, and their parses.               *)
(***************************************************************************)
\* the 'date' under lastUpdatePostDateStruct of a study: missing, no date, no
\* string, a date inside the default window (written without zero padding), the
\* day 90 days before the clock's day, and the day before that one
NotADate == Str(<<"n", "o", "t", "-", "a", "-", "d", "a", "t", "e">>)
NumberDate == Num(20240315)
DateInWindow == Str(<<"2", "0", "2", "4", "-", "3", "-", "1", "5">>)
DateOnCutoffDay == Str(<<"2", "0", "2", "4", "-", "0", "1", "-", "0", "1">>)
DateBeforeCutoffDay == Str(<<"2", "0", "2", "3", "-", "1", "2", "-", "3", "1">>)

DateValues ==
    {Absent, NotADate, NumberDate, DateInWindow, DateOnCutoffDay, DateBeforeCutoffDay}

\* strptime of the date strings above, computed once
Parsed == [v \in {d \in DateValues : d.t = "str"} |-> strptime(v)]

\* datetime.strptime(v, "%Y-%m-%d"), read from Parsed where it holds the string
strptimeOf(v) ==
    IF v.t = "str" /\ v \in DOMAIN Parsed THEN Parsed[v] ELSE strptime(v)

(***************************************************************************)
(* The pipeline: fetch_trials_from_clinicaltrials_gov.                     *)
(***************************************************************************)
\* date_cutoff = datetime.today() - timedelta(days=30 * months_back_filter)
DateCutoff(today, months_back_filter) ==
    MinusDays(today, DaysPerMonth * months_back_filter)

\* params that never carry the page token
BuildParams_noToken(cond, token) ==
    [query_cond |-> cond, pageSize |-> 100, pageToken |-> Absent]

\* params = base_params.copy(); if nextPageToken: params['pageToken'] = nextPageToken
BuildParams(cond, token) ==
    [query_cond |-> cond,
     pageSize |-> 100,
     pageToken |-> IF Falsy(token) THEN Absent ELSE token]

\* a loop without the check for an empty page
NoStudies_unchecked(studies) == FALSE

\* "if not studies: break"
NoStudies(studies) == studies = <<>>

\* a loop without the recency check
OlderThanCutoff_unchecked(dt, cutoff) == FALSE

\* "if last_update_date_obj < date_cutoff: continue"
OlderThanCutoff(dt, cutoff) == DtLess(dt, cutoff)

\* the body of "for study in studies" for one study: what it does to data_list,
\* and the exception it raises ("" when none)
ProcessStudy(study, dl, cutoff) ==
    IF study.t # "dict" THEN [data_list |-> dl, exc |-> "AttributeError"]
    ELSE LET lastUpdatePostDate_str == study.date
         IN  IF Falsy(lastUpdatePostDate_str) THEN [data_list |-> dl, exc |-> ""]
             ELSE LET p == strptimeOf(lastUpdatePostDate_str)
                  IN  IF ~p.ok
                      THEN [data_list |-> dl,
                            exc |-> IF p.exc = "ValueError" THEN "" ELSE p.exc]
                      ELSE IF OlderThanCutoff(p.dt, cutoff) THEN [data_list |-> dl, exc |-> ""]
                      ELSE [data_list |->
                                Append(dl, [NCT_ID |-> study.nctId,
                                            Last_Update_Post_Date |-> lastUpdatePostDate_str.s]),
                            exc |-> ""]

RECURSIVE ProcessStudies(_, _, _)
\* "for study in studies: ...": stops at the first study that raises
ProcessStudies(studies, dl, cutoff) ==
    IF studies = <<>> THEN [data_list |-> dl, exc |-> ""]
    ELSE LET one == ProcessStudy(Head(studies), dl, cutoff)
         IN  IF one.exc # "" THEN one
             ELSE ProcessStudies(Tail(studies), one.data_list, cutoff)

\* the limit compared with ">" in place of ">="
PageLimitReached_offByOne(count) == count > max_pages

\* "if not nextPageToken or page_count >= max_pages: break"
PageLimitReached(count) == count >= max_pages

\* except clauses for the errors of requests only
Caught_requestsOnly(exc) ==
    exc \in {"HTTPError", "ConnectionError", "Timeout", "RequestException"}

\* the except clauses of the loop: requests' errors, JSONDecodeError, and
\* "except Exception" for everything else
Caught(exc) ==
    \/ exc \in {"HTTPError", "ConnectionError", "Timeout", "RequestException"}
    \/ exc = "JSONDecodeError"
    \/ exc \in {"AttributeError", "TypeError"}

\* get_sort_key(item)
get_sort_key(item) ==
    LET p == strptimeOf(Str(item.Last_Update_Post_Date))
    IN  IF p.ok THEN p.dt ELSE DatetimeMin

\* x goes before the elements whose key equals its own (what sorting ascending
\* and reversing would give)
InsertDesc_beforeEqual(sorted, x) ==
    LET before == {i \in 1..Len(sorted) : DtLess(get_sort_key(x), get_sort_key(sorted[i]))}
        k == IF before = {} THEN 0 ELSE CHOOSE i \in before : \A j \in before : j <= i
    IN  SubSeq(sorted, 1, k) \o <<x>> \o SubSeq(sorted, k + 1, Len(sorted))

\* x goes after every element whose key is not smaller than its own
InsertDesc(sorted, x) ==
    LET before == {i \in 1..Len(sorted) : ~DtLess(get_sort_key(sorted[i]), get_sort_key(x))}
        k == IF before = {} THEN 0 ELSE CHOOSE i \in before : \A j \in before : j <= i
    IN  SubSeq(sorted, 1, k) \o <<x>> \o SubSeq(sorted, k + 1, Len(sorted))

RECURSIVE SortDesc(_)
\* data_list.sort(key=get_sort_key, reverse=True): stable, descending
SortDesc(list) ==
    IF list = <<>> THEN <<>>
    ELSE InsertDesc(SortDesc(SubSeq(list, 1, Len(list) - 1)), list[Len(list)])

(***************************************************************************)
(* The handler: search_trials.                                             *)
(***************************************************************************)
\* the comprehension without "and term.strip()"
KeepTerm_blankToo(term) == term.t = "str"

\* "isinstance(term, str) and term.strip()"
KeepTerm(term) == term.t = "str" /\ Strip(term.s) # <<>>

RECURSIVE ValidTerms(_)
\* [term.strip() for term in query_terms_raw if isinstance(term, str) and term.strip()]
ValidTerms(raw) ==
    IF raw = <<>> THEN <<>>
    ELSE (IF KeepTerm(Head(raw)) THEN <<Strip(Head(raw).s)>> ELSE <<>>) \o ValidTerms(Tail(raw))

\* all_results created anew for each term
DictSet_fresh(d, key, value) == [k \in {key} |-> value]

\* all_results[term] = value
DictSet(d, key, value) ==
    [k \in DOMAIN d \cup {key} |-> IF k = key THEN value ELSE d[k]]

(***************************************************************************)
(* State.                                                                  *)
(***************************************************************************)
VARIABLES
    pc,             \* "idle", "received", "loop" (between two terms), "fetch", "responded"
    now,            \* the clock, what datetime.today() returns
    body,           \* request.get_json(): [query_terms, months_back]
    months_back,    \* search_trials' local
    query_terms,    \* search_trials' local: the valid terms
    ti,             \* position of "for term in query_terms" (1-based)
    all_results,    \* search_trials' local: term -> list of records
    status,         \* HTTP status answered (0: none yet)
    condition,      \* fetch: its argument
    date_cutoff,    \* fetch: local
    data_list,      \* fetch: local
    nextPageToken,  \* fetch: local
    page_count,     \* fetch: local
    sent,           \* upstream: params of the latest requests.get of the current call
    resp,           \* upstream: its answer
    nreq,           \* upstream: requests.get calls of the current fetch call
    ncalls,         \* calls of fetch during the inbound request
    served          \* upstream: numbered studies served during the inbound request

vars == <<pc, now, body, months_back, query_terms, ti, all_results, status,
          condition, date_cutoff, data_list, nextPageToken, page_count,
          sent, resp, nreq, ncalls, served>>

handlerVars == <<body, months_back, query_terms, status>>
fetchVars == <<condition, date_cutoff, data_list, nextPageToken, page_count>>
upstreamVars == <<sent, resp, nreq, served>>

(***************************************************************************)
(* Inputs: the clock, request bodies, upstream answers.                    *)
(***************************************************************************)
\* 2024-03-31, at midnight exactly or later in the day
Clocks == {[ord |-> Ordinal(2024, 3, 31), tod |-> h] : h \in {0, 1}}

\* elements of query_terms: blank strings, terms with and without
\* surrounding whitespace, a non-string
TermElems ==
    {Str(<<>>), Str(<<" ">>), Str(<<"a">>), Str(<<" ", "a">>), Str(<<"b", " ">>), Num(7)}

RECURSIVE SeqsUpTo(_, _)
\* the sequences over S of length at most n
SeqsUpTo(S, n) ==
    IF n = 0 THEN {<<>>}
    ELSE LET shorter == SeqsUpTo(S, n - 1)
         IN  shorter \cup {Append(q, x) : q \in {r \in shorter : Len(r) = n - 1}, x \in S}

\* 'query_terms' of the body: missing, not a list, or a list
QueryTermsValues ==
    {Absent, Null, Str(<<"a">>)}
        \cup {[t |-> "list", items |-> q] : q \in SeqsUpTo(TermElems, MaxTerms)}

\* 'months_back' of the body: missing, or an integer
MonthsBackValues == {Absent, Num(0)}

Bodies == [query_terms : QueryTermsValues, months_back : MonthsBackValues]

NoBody == [query_terms |-> Absent, months_back |-> Absent]


\* the k-th numbered study the upstream serves: a study object, or an element
\* of 'studies' that is no object
StudyChoices(k) ==
    {[t |-> "dict", nctId |-> k, date |-> d] : d \in DateValues}
        \cup {[t |-> "junk", nctId |-> k, date |-> Absent]}

RECURSIVE PagesOf(_, _)
\* the 'studies' lists of n studies served after `first` studies
PagesOf(n, first) ==
    IF n = 0 THEN {<<>>}
    ELSE {Append(q, x) : q \in PagesOf(n - 1, first), x \in StudyChoices(first + n)}

\* a study object with neither 'nctId' nor 'lastUpdatePostDateStruct'
BareStudy == [t |-> "dict", nctId |-> 0, date |-> Absent]

Min(a, b) == IF a < b THEN a ELSE b

\* the 'studies' lists the upstream can answer with after `first` numbered studies
Pages(first) ==
    IF first >= MaxStudies THEN {<<>>, <<BareStudy>>}
    ELSE UNION {PagesOf(n, first) : n \in 0..Min(MaxPerPage, MaxStudies - first)}

\* the continuation token of the k-th answer: opaque, never reused
TokenFor(k) == Str(<<"p", DigitChars[(k \div 10) + 1], DigitChars[(k % 10) + 1]>>)

\* no request made yet by the current call of the pipeline
NoParams == [query_cond |-> <<>>, pageSize |-> 0, pageToken |-> Absent]

NoAnswer == [exc |-> "", isdict |-> FALSE, studies |-> <<>>, nextPageToken |-> Absent]

\* what requests.get / raise_for_status / response.json() can give for the
\* k-th request of the inbound request: an exception, a JSON body that is no
\* object, or an object with 'studies' and with 'nextPageToken' missing, empty
\* or a token
Responses(k, first) ==
    {[NoAnswer EXCEPT !.exc = e] :
        e \in {"ConnectionError", "Timeout", "HTTPError", "JSONDecodeError"}}
    \cup {NoAnswer}
    \cup {[exc |-> "", isdict |-> TRUE, studies |-> q, nextPageToken |-> tok] :
            q \in Pages(first),
            tok \in {Absent, Str(<<>>), TokenFor(k)}}

(***************************************************************************)
(* Init and the actions.                                                   *)
(***************************************************************************)
Init ==
    /\ pc = "idle"
    /\ now \in Clocks
    /\ body = NoBody
    /\ months_back = 0
    /\ query_terms = <<>>
    /\ ti = 0
    /\ all_results = <<>>
    /\ status = 0
    /\ condition = <<>>
    /\ date_cutoff = DatetimeMin
    /\ data_list = <<>>
    /\ nextPageToken = Absent
    /\ page_count = 0
    /\ sent = NoParams
    /\ resp = NoAnswer
    /\ nreq = 0
    /\ ncalls = 0
    /\ served = 0

\* a POST /api/search_trials arrives with a JSON object as its body
ReceiveRequest ==
    /\ pc = "idle"
    /\ body' \in Bodies
    /\ pc' = "received"
    /\ UNCHANGED <<now, months_back, query_terms, ti, all_results, status,
                   fetchVars, upstreamVars, ncalls>>

\* search_trials, up to "all_results = {}": the request's JSON is not read again
Validate ==
    /\ pc = "received"
    /\ LET query_terms_raw ==
               IF body.query_terms.t = "absent" THEN [t |-> "list", items |-> <<>>]
               ELSE body.query_terms
           mb == IF body.months_back.t = "absent" THEN DefaultMonthsBack
                 ELSE body.months_back.n
       IN  /\ months_back' = mb
           /\ IF query_terms_raw.t # "list"
              THEN /\ status' = 400
                   /\ pc' = "responded"
                   /\ UNCHANGED <<query_terms, ti, body>>
              ELSE IF ValidTerms(query_terms_raw.items) = <<>>
              THEN /\ status' = 400
                   /\ pc' = "responded"
                   /\ UNCHANGED <<query_terms, ti, body>>
              ELSE /\ query_terms' = ValidTerms(query_terms_raw.items)
                   /\ ti' = 1
                   /\ pc' = "loop"
                   /\ body' = NoBody
                   /\ UNCHANGED status
    /\ UNCHANGED <<now, all_results, fetchVars, upstreamVars, ncalls>>

\* "all_results[term] = fetch_trials_from_clinicaltrials_gov(term, months_back)":
\* the call, up to "while True"
CallFetch ==
    /\ pc = "loop"
    /\ ti <= Len(query_terms)
    /\ condition' = query_terms[ti]
    /\ date_cutoff' = DateCutoff(now, months_back)
    /\ data_list' = <<>>
    /\ nextPageToken' = Null
    /\ page_count' = 0
    /\ nreq' = 0
    /\ sent' = NoParams
    /\ resp' = NoAnswer
    /\ ncalls' = ncalls + 1
    /\ pc' = "fetch"
    /\ UNCHANGED <<now, handlerVars, ti, all_results, served>>

\* one turn of "while True": the request, the page's studies, the token; when
\* the turn leaves the loop, also the sort, the return, the handler's
\* assignment to all_results[term] and, after the last term,
\* "return jsonify(all_results)"
FetchPage ==
    /\ pc = "fetch"
    /\ \E r \in Responses((ncalls - 1) * max_pages + nreq + 1, served) :
        LET data == r
            studies == IF data.isdict THEN data.studies ELSE <<>>
            done == IF data.exc = "" /\ data.isdict /\ ~NoStudies(studies)
                    THEN ProcessStudies(studies, data_list, date_cutoff)
                    ELSE [data_list |-> data_list, exc |-> ""]
            exc == IF data.exc # "" THEN data.exc
                   ELSE IF ~data.isdict THEN "AttributeError"
                   ELSE done.exc
            token == IF exc = "" /\ ~NoStudies(studies)
                     THEN data.nextPageToken ELSE nextPageToken
            count == IF exc = "" /\ ~NoStudies(studies)
                     THEN page_count + 1 ELSE page_count
            leave == \/ exc # ""
                     \/ NoStudies(studies)
                     \/ Falsy(token)
                     \/ PageLimitReached(count)
        IN  /\ sent' = BuildParams(condition, nextPageToken)
            /\ resp' = r
            /\ nreq' = nreq + 1
            /\ served' = served + Cardinality({i \in 1..Len(r.studies) : r.studies[i] # BareStudy})
            /\ data_list' = done.data_list
            /\ nextPageToken' = token
            /\ page_count' = count
            /\ IF exc # "" /\ ~Caught(exc)
               THEN /\ pc' = "responded"
                    /\ status' = 500
                    /\ UNCHANGED <<all_results, ti>>
               ELSE IF leave
               THEN /\ all_results' = DictSet(all_results, condition, SortDesc(done.data_list))
                    /\ ti' = ti + 1
                    /\ IF ti + 1 > Len(query_terms)
                       THEN pc' = "responded" /\ status' = 200
                       ELSE pc' = "loop" /\ UNCHANGED status
               ELSE /\ pc' = "fetch"
                    /\ UNCHANGED <<all_results, ti, status>>
    /\ UNCHANGED <<now, body, months_back, query_terms, condition, date_cutoff, ncalls>>

Next ==
    \/ ReceiveRequest
    \/ Validate
    \/ CallFetch
    \/ FetchPage

Spec == Init /\ [][Next]_vars

(***************************************************************************)
(* Properties.                                                             *)
(***************************************************************************)
Range(q) == {q[i] : i \in 1..Len(q)}

Ids(list) == {list[i].NCT_ID : i \in 1..Len(list)}

\* the loop has made a request for the current term, and resp is its answer
Answered == nreq >= 1

\* the call of the pipeline has returned to the handler
Returned(p) == p \in {"loop", "responded"}

\* resp is a JSON object with its 'studies' list
IsPage(r) == r.exc = "" /\ r.isdict

\* a list holds the same records as another, each once
SameRecords(a, b) == Len(a) = Len(b) /\ Range(a) = Range(b)

ParsedOrd(rec) == strptimeOf(Str(rec.Last_Update_Post_Date)).dt.ord

\* non-increasing by parsed date; equal dates in the order of arrival (the
\* upstream numbers the studies it serves in the order it serves them)
SortedStable(list) ==
    \A i, j \in 1..Len(list) :
        i < j =>
            \/ ParsedOrd(list[i]) > ParsedOrd(list[j])
            \/ ParsedOrd(list[i]) = ParsedOrd(list[j]) /\ list[i].NCT_ID < list[j].NCT_ID

\* the day the window starts: the clock's day minus 30 days per month
CutoffDay == now.ord - 30 * months_back

\* a study whose last-update date is present, parses and is on or after the cutoff day
InWindowByDay(study) ==
    /\ study.t = "dict"
    /\ study.date.t = "str"
    /\ strptimeOf(study.date).ok
    /\ strptimeOf(study.date).dt.ord >= CutoffDay

\* C1: every record of every returned list has a 'Last Update Post Date' that
\* parses with "%Y-%m-%d" and is on or after today - 30 * months_back days;
\* so no record without a date or with "not-a-date" is in an output.
C1_OutputDatesValidAndRecent ==
    \A t \in DOMAIN all_results :
        \A i \in 1..Len(all_results[t]) :
            LET p == strptimeOf(Str(all_results[t][i].Last_Update_Post_Date))
            IN  /\ p.ok
                /\ p.dt.ord >= CutoffDay
                /\ Str(all_results[t][i].Last_Update_Post_Date) # NotADate

\* a response was sent whose list for the last term holds a record of a page
\* that also carried a "not-a-date" study and a study older than the window
C1_Witness ==
    /\ pc = "responded"
    /\ status = 200
    /\ Len(resp.studies) = 2
    /\ resp.studies[1].date \in {NotADate, DateBeforeCutoffDay}
    /\ resp.studies[2].nctId \in Ids(all_results[condition])
    /\ \E i \in 1..Len(all_results[condition]) :
          Str(all_results[condition][i].Last_Update_Post_Date) = DateOnCutoffDay

\* the page of resp has a malformed element: one that is no object, or one
\* whose date is neither missing nor a string
BadStudy(study) ==
    \/ study.t # "dict"
    \/ study.date.t \notin {"absent", "null", "str"} /\ ~Falsy(study.date)

\* the fetch of the current term failed at the page of resp
FailedAt(r) ==
    \/ r.exc # ""
    \/ ~r.isdict
    \/ \E i \in 1..Len(r.studies) : r.studies[i].t # "dict"

FailedAtAny(r) ==
    \/ FailedAt(r)
    \/ \E i \in 1..Len(r.studies) : BadStudy(r.studies[i])

\* C2 as claimed: after a failure at page k the call returns, without raising
\* and without a further request, the sorted records of pages 1..k-1 and no
\* record of the failing page.
C2_FailureReturnsPriorPagesOnly ==
    (Answered /\ FailedAt(resp)) =>
        /\ pc # "fetch"
        /\ status # 500
        /\ SameRecords(all_results[condition], data_list)
        /\ SortedStable(all_results[condition])
        /\ \A i \in 1..Len(resp.studies) : resp.studies[i].nctId \notin Ids(data_list)

RECURSIVE KeptBeforeFault(_)
\* the records of a 'studies' list that the filter keeps, up to its first
\* malformed element
KeptBeforeFault(studies) ==
    IF studies = <<>> \/ BadStudy(Head(studies)) THEN <<>>
    ELSE LET st == Head(studies)
             p == strptimeOf(st.date)
         IN  (IF st.date.t = "str" /\ p.ok /\ ~DtLess(p.dt, date_cutoff)
              THEN <<[NCT_ID |-> st.nctId, Last_Update_Post_Date |-> st.date.s]>>
              ELSE <<>>) \o KeptBeforeFault(Tail(studies))

\* C2, amended: after a failure at page k the call returns, without raising and
\* without a further request, the sorted records of pages 1..k-1 and of the
\* elements of page k that precede its first malformed element (none when the
\* request, the status or the body as a whole failed).
C2_FailureReturnsCollected ==
    [][(pc = "fetch" /\ FailedAtAny(resp')) =>
          /\ Returned(pc')
          /\ status' \in {status, 200}
          /\ data_list' = data_list \o (IF IsPage(resp') THEN KeptBeforeFault(resp'.studies)
                                        ELSE <<>>)
          /\ DOMAIN all_results' = DOMAIN all_results \cup {condition}
          /\ SameRecords(all_results'[condition], data_list')
          /\ SortedStable(all_results'[condition])]_vars

\* the second page failed at its second element: the list returned holds a
\* record of the first page and the record of the failing page's first element
C2_Witness ==
    /\ Returned(pc)
    /\ nreq = 2
    /\ IsPage(resp)
    /\ Len(resp.studies) = 2
    /\ resp.studies[2].t # "dict"
    /\ resp.studies[1].nctId \in Ids(all_results[condition])
    /\ Len(all_results[condition]) = 2

\* C3: one call of the pipeline issues at most 5 requests.
C3_AtMostFiveRequests == nreq <= 5

\* the fifth answer still offered a continuation token, and the call returned
C3_Witness ==
    /\ nreq = 5
    /\ IsPage(resp)
    /\ ~Falsy(resp.nextPageToken)
    /\ resp.studies # <<>>
    /\ Returned(pc)

\* C4: a call never raises into the handler; when it returns, the mapping gains
\* the entry of its term and keeps every other entry as it was; the entry of a
\* term whose first request failed is the empty list; no record of one term's
\* answers is in the entry of another term; the response has an entry for
\* every valid input term.
C4_TermsIsolated ==
    [][/\ status' # 500
       /\ (pc = "fetch" => (pc' = "fetch" \/ Returned(pc')))
       /\ (pc = "fetch" /\ Returned(pc')) =>
             /\ DOMAIN all_results' = DOMAIN all_results \cup {condition}
             /\ \A t \in DOMAIN all_results \ {condition} : all_results'[t] = all_results[t]
             /\ \A t \in DOMAIN all_results \ {condition} :
                   Ids(all_results'[t]) \cap Ids(all_results'[condition]) = {}
             /\ (nreq' = 1 /\ ~IsPage(resp')) => all_results'[condition] = <<>>
       /\ (status' = 200 => DOMAIN all_results' = Range(query_terms'))]_vars

\* two different terms, the second one's first request failed in transport:
\* it has an empty entry and the first one's entry is populated
C4_Witness ==
    /\ pc = "responded"
    /\ status = 200
    /\ Len(query_terms) = 2
    /\ query_terms[1] # query_terms[2]
    /\ nreq = 1
    /\ resp.exc = "ConnectionError"
    /\ all_results[query_terms[2]] = <<>>
    /\ Len(all_results[query_terms[1]]) >= 2

\* C5: every returned list is sorted non-increasing by parsed date, and
\* records with equal dates are in the order in which they were received.
C5_SortedDescendingStable ==
    \A t \in DOMAIN all_results : SortedStable(all_results[t])

\* a returned list with two records of one date and a later-dated record that
\* was received after them
C5_Witness ==
    /\ Returned(pc)
    /\ Len(data_list) = 3
    /\ ParsedOrd(data_list[1]) = ParsedOrd(data_list[2])
    /\ ParsedOrd(data_list[3]) > ParsedOrd(data_list[1])
    /\ all_results[condition] = <<data_list[3], data_list[1], data_list[2]>>

\* the page of resp went through the loop without a fault
PageProcessed(r) ==
    /\ IsPage(r)
    /\ \A i \in 1..Len(r.studies) : ~BadStudy(r.studies[i])

\* C6 as claimed: a record of a fetched page is in the output, once, if and
\* only if its date is present, parses and is on or after the cutoff day
\* today - 30 * months_back; a record dated on the cutoff day is kept.
C6_KeepsExactlyInWindow ==
    (Answered /\ PageProcessed(resp)) =>
        \A i \in 1..Len(resp.studies) :
            LET st == resp.studies[i]
                hits == {j \in 1..Len(data_list) : data_list[j].NCT_ID = st.nctId}
                out == {j \in 1..Len(all_results[condition]) :
                            all_results[condition][j].NCT_ID = st.nctId}
            IN  /\ Cardinality(hits) = (IF InWindowByDay(st) THEN 1 ELSE 0)
                /\ pc # "fetch" => Cardinality(out) = Cardinality(hits)

\* C7 as claimed: a study whose date is missing or cannot be parsed is dropped
\* and the fetch goes on: the later studies of the page that are within the
\* window are kept and the page's continuation token is followed.
C7_BadDateDoesNotAbort ==
    (Answered /\ IsPage(resp) /\ \A i \in 1..Len(resp.studies) : resp.studies[i].t = "dict") =>
        /\ \A i \in 1..Len(resp.studies) :
              LET st == resp.studies[i]
              IN  (st.date.t = "str" /\ strptimeOf(st.date).ok
                        /\ ~DtLess(strptimeOf(st.date).dt, date_cutoff))
                  => st.nctId \in Ids(data_list)
        /\ (resp.studies # <<>> /\ ~Falsy(resp.nextPageToken) /\ nreq < 5) => pc = "fetch"

\* a term of the request's list that is a string with a character that is no whitespace
UsableTerm(term) == term.t = "str" /\ \E i \in 1..Len(term.s) : ~IsSpace(term.s[i])

\* the request's body supplies no valid condition term
NoValidTerm(b) ==
    \/ b.query_terms.t \notin {"absent", "list"}
    \/ b.query_terms.t = "absent"
    \/ b.query_terms.t = "list"
          /\ \A i \in 1..Len(b.query_terms.items) : ~UsableTerm(b.query_terms.items[i])

\* a string that is not empty and has no whitespace at either end
Trimmed(chars) == chars # <<>> /\ ~IsSpace(chars[1]) /\ ~IsSpace(chars[Len(chars)])

\* C8: a request without a valid condition term is answered 400 with no call
\* of the pipeline and no outbound request; any other request reaches the
\* pipeline, which is only ever called with a non-empty, trimmed condition,
\* and a 200 response stands for at least one term.
C8_NoCallWithoutValidTerm ==
    [][/\ (pc = "received" /\ NoValidTerm(body)) =>
             (status' = 400 /\ pc' = "responded" /\ ncalls' = 0 /\ nreq' = 0 /\ sent' = sent)
       /\ (pc = "received" /\ ~NoValidTerm(body)) => (status' = 0 /\ pc' = "loop")
       /\ (ncalls' > ncalls) => Trimmed(condition')
       /\ (status' = 200) => query_terms' # <<>>
       /\ (status' = 400) => ncalls' = 0]_vars

\* a request whose list holds only a blank string and a non-string was answered 400
C8_Witness ==
    /\ pc = "responded"
    /\ status = 400
    /\ body.query_terms.t = "list"
    /\ Len(body.query_terms.items) = 2
    /\ body.query_terms.items[1].t = "num"
    /\ body.query_terms.items[2] = Str(<<" ">>)
    /\ ncalls = 0

\* C9: a page with zero records ends the loop, with or without a continuation
\* token: the call returns the records kept so far, sorted, and requests
\* nothing more.
C9_EmptyPageEndsLoop ==
    [][(pc = "fetch" /\ IsPage(resp') /\ resp'.studies = <<>>) =>
          /\ Returned(pc')
          /\ data_list' = data_list
          /\ SameRecords(all_results'[condition], data_list)
          /\ SortedStable(all_results'[condition])]_vars

\* the second page was empty and carried a token; the call returned the
\* records of the first page
C9_Witness ==
    /\ Returned(pc)
    /\ nreq = 2
    /\ IsPage(resp)
    /\ resp.studies = <<>>
    /\ ~Falsy(resp.nextPageToken)
    /\ Len(all_results[condition]) = 2

\* C10: the first request of a call carries no page token; every later one
\* follows a page that returned a token and carries exactly that token; every
\* request carries the call's own condition.
C10_TokenChained ==
    [][(nreq' = nreq + 1) =>
          /\ sent'.query_cond = condition
          /\ IF nreq = 0 THEN sent'.pageToken = Absent
             ELSE /\ IsPage(resp)
                  /\ ~Falsy(resp.nextPageToken)
                  /\ sent'.pageToken = resp.nextPageToken]_vars

\* the second term's third request carried the token of its second answer
C10_Witness ==
    /\ ncalls = 2
    /\ nreq = 3
    /\ sent.pageToken = TokenFor(max_pages + 2)
    /\ sent.query_cond = query_terms[2]
    /\ query_terms[1] # query_terms[2]

=============================================================================
